---- MODULE Spec2Model ----
(***************************************************************************)
(* Model of the iBigay API (src/main.py): the proximity search             *)
(* (list_items), the suggestion engine (_generate_tipid_suggestions), the  *)
(* diversion aggregator (user_stats) and user registration                 *)
(* (register_user), over a document store with the collections "item" and  *)
(* "user".                                                                 *)
(*                                                                         *)
(* Units.  Distances are integers in decimetres (1 km = 10000), so that    *)
(* round(dist, 2) is rounding to a multiple of 100.  Coordinates are       *)
(* integers in 1e-4 degrees.  Masses are integers in milligrams            *)
(* (1 kg = 1000000), so that round(kg, 2) is rounding to a multiple of     *)
(* 10000.  Python strings that the code inspects character by character    *)
(* (title, description, unit) are sequences of one-character strings.      *)
(***************************************************************************)
EXTENDS Integers, Sequences, FiniteSets, TLC

VARIABLES itemDocs,   \* collection "item": sequence of documents, in store order
          userDocs,   \* collection "user": sequence of documents, in store order
          req,        \* the request the last handler served
          resp,       \* the response of the last handler
          pc,         \* register_user: position of each in-flight request
          existing    \* register_user: each request's local `existing`

vars == <<itemDocs, userDocs, req, resp, pc, existing>>

(***************************************************************************)
(* Bounds                                                                  *)
(***************************************************************************)
MaxItems == 3        \* documents in "item"
MaxRequests == 3     \* register_user requests in flight

(***************************************************************************)
(* Values                                                                  *)
(***************************************************************************)
Float(v) == [kind |-> "float", val |-> v]
BadStr == [kind |-> "str", val |-> 0]        \* a non-numeric string, e.g. "abc"
Missing == [kind |-> "missing", val |-> 0]   \* key absent or None

NoReq == [op |-> "none"]
NoResp == [op |-> "none", status |-> 0, body |-> <<>>]

Range(s) == {s[i] : i \in DOMAIN s}

\* round(x, 2) on a value held in units of 1/unit: nearest multiple of
\* unit, ties to even, as Python's round.
round(x, unit) ==
    LET q == x \div unit
        r == x % unit
    IN  IF 2 * r < unit THEN q
        ELSE IF 2 * r > unit THEN q + 1
        ELSE IF q % 2 = 0 THEN q ELSE q + 1

(***************************************************************************)
(* Document store                                                          *)
(***************************************************************************)
\* create_document(collection, data): append with a generated id
create_document(coll, data) == Append(coll, [data EXCEPT !.oid = Len(coll) + 1])

\* serialize_doc: "_id" becomes "id", other fields are copied
serialize_doc(d) ==
    [id |-> d.oid, user_id |-> d.user_id, quantity |-> d.quantity,
     unit |-> d.unit, location_lat |-> d.location_lat,
     location_lng |-> d.location_lng, available |-> d.available]

(***************************************************************************)
(* Proximity search                                                        *)
(***************************************************************************)
\* the latitudes and longitudes requests and documents carry
LatGrid == <<145995, 146040, 146130>>
LngGrid == <<1209842, 1209843>>
Lat1 == LatGrid[1]
Lat2 == LatGrid[2]
Lat3 == LatGrid[3]
Lng1 == LngGrid[1]
Lng2 == LngGrid[2]

\* _haversine_km on the coordinates above, in decimetres: the values the
\* function of main.py returns, rounded to 0.1 m.
_haversine_km(lat1, lon1, lat2, lon2) ==
    LET lo == IF lat1 <= lat2 THEN lat1 ELSE lat2
        hi == IF lat1 <= lat2 THEN lat2 ELSE lat1
        same == (lon1 = lon2)
    IN  CASE lo = hi /\ same -> 0
          [] lo = hi /\ ~same -> 108
          [] lo = Lat1 /\ hi = Lat2 /\ same -> 5004
          [] lo = Lat1 /\ hi = Lat2 /\ ~same -> 5005
          [] lo = Lat1 /\ hi = Lat3 /\ same -> 15011
          [] lo = Lat1 /\ hi = Lat3 /\ ~same -> 15012
          [] lo = Lat2 /\ hi = Lat3 -> 10008

\* dist = 9999 of the except branch
SentinelDist == 99990000

\* float(v): defined on numbers only; None and non-numeric strings raise
FloatRaises(v) == v.kind # "float"

ItemDist_ZeroOnError(lat, lng, d) ==
    IF FloatRaises(d.location_lat) \/ FloatRaises(d.location_lng)
    THEN 0
    ELSE _haversine_km(lat, lng, d.location_lat.val, d.location_lng.val)

\* the try/except around _haversine_km(lat, lng, float(..), float(..))
ItemDist(lat, lng, d) ==
    IF FloatRaises(d.location_lat) \/ FloatRaises(d.location_lng)
    THEN SentinelDist
    ELSE _haversine_km(lat, lng, d.location_lat.val, d.location_lng.val)

\* truth value of d_ser.get("available", True)
Truthy(a) == a \in {"absent", "True"}

Retained_IgnoreAvailable(dist, radius_km, d) == dist <= radius_km
\* the condition of line 175
Retained(dist, radius_km, d) == dist <= radius_km /\ Truthy(d.available)

Enrich(lat, lng, d) ==
    LET d_ser == serialize_doc(d)
    IN  [id |-> d_ser.id, user_id |-> d_ser.user_id, quantity |-> d_ser.quantity,
         unit |-> d_ser.unit, location_lat |-> d_ser.location_lat,
         location_lng |-> d_ser.location_lng, available |-> d_ser.available,
         distance_km |-> round(ItemDist(lat, lng, d), 100)]

\* the for loop of list_items: the retained documents, in store order
RECURSIVE Enriched(_, _, _, _)
Enriched(lat, lng, radius_km, ds) ==
    IF ds = <<>> THEN <<>>
    ELSE LET d == Head(ds)
             rest == Enriched(lat, lng, radius_km, Tail(ds))
         IN  IF Retained(ItemDist(lat, lng, d), radius_km, d)
             THEN <<Enrich(lat, lng, d)>> \o rest
             ELSE rest

\* insertion of x into a sorted sequence: x goes after every element whose
\* key is <= its own (list.sort is stable)
RECURSIVE InsertSorted_BeforeTies(_, _)
InsertSorted_BeforeTies(x, s) ==
    IF s = <<>> THEN <<x>>
    ELSE IF Head(s).distance_km < x.distance_km
         THEN <<Head(s)>> \o InsertSorted_BeforeTies(x, Tail(s))
         ELSE <<x>> \o s

RECURSIVE InsertSorted(_, _)
InsertSorted(x, s) ==
    IF s = <<>> THEN <<x>>
    ELSE IF Head(s).distance_km <= x.distance_km
         THEN <<Head(s)>> \o InsertSorted(x, Tail(s))
         ELSE <<x>> \o s

\* enriched.sort(key=lambda x: x.get("distance_km", 9999))
RECURSIVE SortByDistance(_)
SortByDistance(s) ==
    IF s = <<>> THEN <<>>
    ELSE InsertSorted(s[Len(s)], SortByDistance(SubSeq(s, 1, Len(s) - 1)))

list_items(lat, lng, radius_km, ds) == SortByDistance(Enriched(lat, lng, radius_km, ds))

\* what requests and documents are made of
LatValues == {Lat1, Lat2}
LngValues == {Lng1}
RadiusValues == {0, 10000, 20000, 99990000}
Locations ==
    { <<Float(Lat1), Float(Lng1)>>, <<Float(Lat2), Float(Lng1)>>,
      <<Float(Lat2), Float(Lng2)>>, <<Float(Lat3), Float(Lng1)>> }

ItemDoc(uid, qty, unit, loc, avail) ==
    [oid |-> 0, user_id |-> uid, quantity |-> qty, unit |-> unit,
     location_lat |-> loc[1], location_lng |-> loc[2], available |-> avail]

\* CreateItemRequest: validated floats, no "available" field
CreateItemRequests ==
    { ItemDoc("u1", Missing, <<>>, loc, "absent") : loc \in Locations }

\* documents other writers of the database put into "item": claimed or
\* re-opened items, and items whose location is not a number
StoredItemDocs ==
    { ItemDoc("u1", Missing, <<>>, <<Float(Lat1), Float(Lng1)>>, "False"),
      ItemDoc("u1", Missing, <<>>, <<Float(Lat2), Float(Lng1)>>, "True"),
      ItemDoc("u1", Missing, <<>>, <<Float(Lat2), Float(Lng2)>>, "False"),
      ItemDoc("u1", Missing, <<>>, <<BadStr, Float(Lng1)>>, "absent"),
      ItemDoc("u1", Missing, <<>>, <<Float(Lat1), Missing>>, "True"),
      ItemDoc("u1", Missing, <<>>, <<BadStr, Missing>>, "False") }

\* POST /api/items
create_item(data) ==
    /\ Len(itemDocs) < MaxItems
    /\ itemDocs' = create_document(itemDocs, data)
    /\ req' = [op |-> "create_item"]
    /\ resp' = [op |-> "create_item", status |-> 200,
                body |-> serialize_doc(itemDocs'[Len(itemDocs')])]
    /\ UNCHANGED <<userDocs, pc, existing>>

\* another client of the database inserts a document into "item"
StoreItem(data) ==
    /\ Len(itemDocs) < MaxItems
    /\ itemDocs' = create_document(itemDocs, data)
    /\ req' = NoReq
    /\ resp' = NoResp
    /\ UNCHANGED <<userDocs, pc, existing>>

\* GET /api/items
ListItems(lat, lng, radius_km) ==
    /\ req' = [op |-> "list_items", lat |-> lat, lng |-> lng, radius_km |-> radius_km]
    /\ resp' = [op |-> "list_items", status |-> 200,
                body |-> list_items(lat, lng, radius_km, itemDocs)]
    /\ UNCHANGED <<itemDocs, userDocs, pc, existing>>

InitItems ==
    /\ itemDocs = <<>>
    /\ userDocs = <<>>
    /\ req = NoReq
    /\ resp = NoResp
    /\ pc = <<>>
    /\ existing = <<>>

NextItems ==
    \/ \E data \in CreateItemRequests : create_item(data)
    \/ \E data \in StoredItemDocs : StoreItem(data)
    \/ \E lat \in LatValues, lng \in LngValues, r \in RadiusValues : ListItems(lat, lng, r)

SpecItems == InitItems /\ [][NextItems]_vars

(***************************************************************************)
(* Proximity search: properties                                            *)
(***************************************************************************)
IsReturned(oid) == \E j \in 1..Len(resp.body) : resp.body[j].id = oid
Malformed(d) == d.location_lat.kind # "float" \/ d.location_lng.kind # "float"
NotMalformed(d) == ~Malformed(d)
StoredDoc(oid) == itemDocs[oid]
Listed == resp.op = "list_items"

\* C1: list_items returns a stored item exactly when its distance from the
\* center is <= radius_km and its `available` field is true or absent; each
\* such item is returned once, an item with available=false is never
\* returned, and an empty store gives an empty result.
C1_ReturnedIffNearAndAvailable ==
    Listed =>
        /\ resp.status = 200
        /\ \A i \in 1..Len(itemDocs) :
              IsReturned(itemDocs[i].oid) <=>
                 /\ ItemDist(req.lat, req.lng, itemDocs[i]) <= req.radius_km
                 /\ itemDocs[i].available \in {"True", "absent"}
        /\ \A j, k \in 1..Len(resp.body) : resp.body[j].id = resp.body[k].id => j = k
        /\ \A j \in 1..Len(resp.body) : resp.body[j].available # "False"
        /\ (itemDocs = <<>> => resp.body = <<>>)

\* an answer that holds a near available item and leaves out a claimed item
\* within the radius and an available item beyond it
C1_Witness ==
    /\ Listed
    /\ Len(resp.body) >= 1
    /\ \E i \in 1..Len(itemDocs) :
          /\ itemDocs[i].available = "False"
          /\ ItemDist(req.lat, req.lng, itemDocs[i]) <= req.radius_km
          /\ ~IsReturned(i)
    /\ \E i \in 1..Len(itemDocs) :
          /\ itemDocs[i].available = "absent"
          /\ ItemDist(req.lat, req.lng, itemDocs[i]) > req.radius_km
          /\ ~IsReturned(i)

\* C2: an item whose location_lat or location_lng is missing or not a number
\* never makes list_items fail; it gets distance 9999, is returned (with
\* distance_km = 9999) only when radius_km >= 9999 and it is available, and
\* the other items are returned, annotated and ordered as if it were not
\* stored.
C2_MalformedLocationIsolated ==
    Listed =>
        /\ resp.status = 200
        /\ \A i \in 1..Len(itemDocs) :
              Malformed(itemDocs[i]) =>
                 /\ ItemDist(req.lat, req.lng, itemDocs[i]) = 99990000
                 /\ IsReturned(itemDocs[i].oid) <=>
                       /\ req.radius_km >= 99990000
                       /\ itemDocs[i].available \in {"True", "absent"}
        /\ \A j \in 1..Len(resp.body) :
              Malformed(resp.body[j]) => resp.body[j].distance_km = 999900
        /\ SelectSeq(resp.body, NotMalformed)
              = list_items(req.lat, req.lng, req.radius_km,
                           SelectSeq(itemDocs, NotMalformed))

\* a malformed item stored before a well-formed one, both returned, the
\* malformed one behind it with distance_km = 9999
C2_Witness ==
    /\ Listed
    /\ Len(resp.body) >= 2
    /\ Malformed(itemDocs[1])
    /\ IsReturned(1)
    /\ ~Malformed(resp.body[1])
    /\ resp.body[Len(resp.body)].distance_km = 999900

\* C3: the answer of list_items is ascending in distance_km, and returned
\* items of equal distance_km keep the order in which the store holds them.
C3_SortedStable ==
    Listed =>
        \A j, k \in 1..Len(resp.body) :
            j < k =>
               /\ resp.body[j].distance_km <= resp.body[k].distance_km
               /\ resp.body[j].distance_km = resp.body[k].distance_km
                     => resp.body[j].id < resp.body[k].id

\* an answer the sort had to reorder, holding two items of equal distance_km
\* of which the first is, unrounded, the farther one
C3_Witness ==
    /\ Listed
    /\ \E j, k \in 1..Len(resp.body) : j < k /\ resp.body[j].id > resp.body[k].id
    /\ \E j, k \in 1..Len(resp.body) :
          /\ j < k
          /\ resp.body[j].distance_km = resp.body[k].distance_km
          /\ ItemDist(req.lat, req.lng, StoredDoc(resp.body[j].id))
                > ItemDist(req.lat, req.lng, StoredDoc(resp.body[k].id))

(***************************************************************************)
(* Suggestion engine                                                       *)
(***************************************************************************)
\* str.lower() on one character
LowerChar(c) ==
    CASE c = "A" -> "a"
      [] c = "B" -> "b"
      [] c = "C" -> "c"
      [] c = "D" -> "d"
      [] c = "E" -> "e"
      [] c = "F" -> "f"
      [] c = "G" -> "g"
      [] c = "H" -> "h"
      [] c = "I" -> "i"
      [] c = "J" -> "j"
      [] c = "K" -> "k"
      [] c = "L" -> "l"
      [] c = "M" -> "m"
      [] c = "N" -> "n"
      [] c = "O" -> "o"
      [] c = "P" -> "p"
      [] c = "Q" -> "q"
      [] c = "R" -> "r"
      [] c = "S" -> "s"
      [] c = "T" -> "t"
      [] c = "U" -> "u"
      [] c = "V" -> "v"
      [] c = "W" -> "w"
      [] c = "X" -> "x"
      [] c = "Y" -> "y"
      [] c = "Z" -> "z"
      [] OTHER -> c

\* str.lower()
lower(s) == [i \in 1..Len(s) |-> LowerChar(s[i])]

\* `kw in text` on strings
Contains(kw, text) ==
    \E i \in 1..(Len(text) - Len(kw) + 1) : SubSeq(text, i, i + Len(kw) - 1) = kw

NoneStr == <<"None">>        \* an absent Optional[str]
NoneCategory == "None"

\* `description or ''`
OrEmpty(description) == IF description = NoneStr THEN <<>> ELSE description

Text_TitleOnly(title, description) == lower(title)
\* text = f"{title} {description or ''}".lower()
Text(title, description) == lower(title \o <<" ">> \o OrEmpty(description))

KwBanana == <<"b", "a", "n", "a", "n", "a">>
KwBread == <<"b", "r", "e", "a", "d">>
KwTinapay == <<"t", "i", "n", "a", "p", "a", "y">>
KwRice == <<"r", "i", "c", "e">>
KwKanin == <<"k", "a", "n", "i", "n">>
KwVegetable == <<"v", "e", "g", "e", "t", "a", "b", "l", "e">>
KwGulay == <<"g", "u", "l", "a", "y">>
KwLettuce == <<"l", "e", "t", "t", "u", "c", "e">>
KwCarrot == <<"c", "a", "r", "r", "o", "t">>

TipBanana == "Freeze overripe bananas for smoothies or baking."
RecipeBanana1 == "Banana Bread na Pang-tipid"
RecipeBanana2 == "Smoothie: saging + gatas + yelo"
RecipeBanana3 == "Maruya / Banana Fritters"
TipBread == "Gawing breadcrumbs o croutons ang matigas na tinapay."
RecipeBread1 == "French Toast / Toasted Bread with itlog"
RecipeBread2 == "Bread Pudding sa Kaldero"
TipRice == "Gawing sinangag ang natirang kanin-perfect for breakfast!"
RecipeRice1 == "Sinangag with Garlic at gulay"
RecipeRice2 == "Arroz Caldo kung sabaw ang hanap"
TipVegetable == "Gamitin sa stir-fry o soup ang nalalantang gulay."
RecipeVegetable1 == "Gulay Stir-fry na may toyo at bawang"
RecipeVegetable2 == "Pickled Gulay para tumagal"
TipHousehold1 == "Repurpose jars/containers for storage."
TipHousehold2 == "Donate locally para hindi mapunta sa landfill."
TipFallback == "Check your fridge first-baka pwedeng i-recipe na!"
RecipeFallback == "Fried Rice ng Bahay"
Mascot == [name |-> "Cen-'tipid'",
           tagline |-> "Pag 'di na kailangan, wag itapon-I-Bigay o I-kusina!"]

\* add_tip / add_recipe: append unless already present
add_tip(tips, t) == IF t \in Range(tips) THEN tips ELSE Append(tips, t)
add_recipe(recipes, r) == IF r \in Range(recipes) THEN recipes ELSE Append(recipes, r)

NeedsFallback_NoRecipes(tips, recipes) == recipes = <<>>
\* `if not tips and not recipes`
NeedsFallback(tips, recipes) == tips = <<>> /\ recipes = <<>>

_generate_tipid_suggestions(title, description, category) ==
    LET text == Text(title, description)
        t0 == <<>>
        r0 == <<>>
        banana == Contains(KwBanana, text)
        t1 == IF banana THEN add_tip(t0, TipBanana) ELSE t0
        r1 == IF banana
              THEN add_recipe(add_recipe(add_recipe(r0, RecipeBanana1), RecipeBanana2),
                              RecipeBanana3)
              ELSE r0
        bread == Contains(KwBread, text) \/ Contains(KwTinapay, text)
        t2 == IF bread THEN add_tip(t1, TipBread) ELSE t1
        r2 == IF bread THEN add_recipe(add_recipe(r1, RecipeBread1), RecipeBread2) ELSE r1
        rice == Contains(KwRice, text) \/ Contains(KwKanin, text)
        t3 == IF rice THEN add_tip(t2, TipRice) ELSE t2
        r3 == IF rice THEN add_recipe(add_recipe(r2, RecipeRice1), RecipeRice2) ELSE r2
        veg == \/ Contains(KwVegetable, text) \/ Contains(KwGulay, text)
               \/ Contains(KwLettuce, text) \/ Contains(KwCarrot, text)
        t4 == IF veg THEN add_tip(t3, TipVegetable) ELSE t3
        r4 == IF veg
              THEN add_recipe(add_recipe(r3, RecipeVegetable1), RecipeVegetable2)
              ELSE r3
        t5 == IF category = "household"
              THEN add_tip(add_tip(t4, TipHousehold1), TipHousehold2)
              ELSE t4
        fb == NeedsFallback(t5, r4)
        t6 == IF fb THEN add_tip(t5, TipFallback) ELSE t5
        r6 == IF fb THEN add_recipe(r4, RecipeFallback) ELSE r4
    IN  [mascot |-> Mascot, tips |-> t6, recipes |-> r6]

\* TipidRequest: title, optional description, optional category
Titles ==
    { <<"O", "v", "e", "r", "r", "i", "p", "e", " ", "b", "a", "n", "a", "n", "a", "s">>,
      <<"B", "A", "N", "A", "N", "A", " ", "r", "i", "c", "e">>,
      <<"P", "r", "i", "c", "e", " ", "t", "a", "g">>,
      <<"O", "l", "d", " ", "j", "a", "r", "s">>,
      <<>>,
      <<"T", "i", "n", "a", "p", "a", "y">>,
      <<"L", "e", "t", "t", "u", "c", "e">>,
      <<"b", "a", "n">>,
      <<"B", "r", "e", "a", "d", " ", "a", "n", "d", " ", "K", "a", "n", "i", "n">>,
      <<"g", "u", "l", "a", "y", ",", " ", "C", "a", "r", "r", "o", "t">> }
Descriptions ==
    { NoneStr,
      <<>>,
      <<"a", "n", "a">>,
      <<"B", "a", "n", "a", "n", "a">>,
      <<"c", "a", "r", "r", "o", "t", "s">>,
      <<"T", "I", "N", "A", "P", "A", "Y">> }
Categories == {NoneCategory, "household", "food", "Household"}

\* POST /api/ai/tipid
tipid_ai ==
    /\ req.op = "tipid"
    /\ resp = NoResp
    /\ resp' = [op |-> "tipid", status |-> 200,
                body |-> _generate_tipid_suggestions(req.title, req.description,
                                                     req.category)]
    /\ UNCHANGED <<itemDocs, userDocs, req, pc, existing>>

InitTipid ==
    /\ itemDocs = <<>>
    /\ userDocs = <<>>
    /\ req \in { [op |-> "tipid", title |-> t, description |-> d, category |-> c] :
                    t \in Titles, d \in Descriptions, c \in Categories }
    /\ resp = NoResp
    /\ pc = <<>>
    /\ existing = <<>>

NextTipid == tipid_ai

SpecTipid == InitTipid /\ [][NextTipid]_vars

(***************************************************************************)
(* Suggestion engine: properties                                           *)
(***************************************************************************)
Suggested == resp.op = "tipid"

\* a keyword occurs, in any letter case, in the title or in the description
Mentions(kw) ==
    \/ Contains(kw, lower(req.title))
    \/ req.description # NoneStr /\ Contains(kw, lower(req.description))

FiresBanana == Mentions(KwBanana)
FiresBread == Mentions(KwBread) \/ Mentions(KwTinapay)
FiresRice == Mentions(KwRice) \/ Mentions(KwKanin)
FiresVegetable ==
    Mentions(KwVegetable) \/ Mentions(KwGulay) \/ Mentions(KwLettuce) \/ Mentions(KwCarrot)
FiresHousehold == req.category = "household"
AnyRuleFires ==
    FiresBanana \/ FiresBread \/ FiresRice \/ FiresVegetable \/ FiresHousehold

When(c, s) == IF c THEN s ELSE <<>>

NoDuplicates(s) == \A i, j \in 1..Len(s) : s[i] = s[j] => i = j

\* C6: tips is the tips of the rules that fire (banana; bread/tinapay;
\* rice/kanin; vegetable/gulay/lettuce/carrot as case-insensitive substrings
\* of title and description; category == "household"), in rule-table order,
\* with the table's last row (the fallback) when none fires; recipes
\* likewise; several rules may fire at once, and no string occurs twice in
\* tips or in recipes.
C6_TipsOfFiringRulesInOrder ==
    Suggested =>
        /\ resp.body.tips =
              When(FiresBanana, <<TipBanana>>) \o When(FiresBread, <<TipBread>>)
              \o When(FiresRice, <<TipRice>>) \o When(FiresVegetable, <<TipVegetable>>)
              \o When(FiresHousehold, <<TipHousehold1, TipHousehold2>>)
              \o When(~AnyRuleFires, <<TipFallback>>)
        /\ resp.body.recipes =
              When(FiresBanana, <<RecipeBanana1, RecipeBanana2, RecipeBanana3>>)
              \o When(FiresBread, <<RecipeBread1, RecipeBread2>>)
              \o When(FiresRice, <<RecipeRice1, RecipeRice2>>)
              \o When(FiresVegetable, <<RecipeVegetable1, RecipeVegetable2>>)
              \o When(~AnyRuleFires, <<RecipeFallback>>)
        /\ NoDuplicates(resp.body.tips)
        /\ NoDuplicates(resp.body.recipes)

\* "banana" in both title and description (in different letter case), with
\* a second rule firing on the description's word only in the title
C6_Witness ==
    /\ Suggested
    /\ Contains(KwBanana, lower(req.title))
    /\ req.description # NoneStr
    /\ Contains(KwBanana, lower(req.description))
    /\ req.title # lower(req.title)
    /\ FiresRice
    /\ Len(resp.body.tips) = 2
    /\ Len(resp.body.recipes) = 5

\* C7: the result is tips = [fallback tip] and recipes = [fallback recipe]
\* exactly when no keyword matched and category is not "household"; when a
\* rule fired neither fallback string is in the result; every input yields
\* the constant mascot block and a non-empty tips list.
C7_FallbackIffNoRuleFired ==
    Suggested =>
        /\ resp.status = 200
        /\ (resp.body.tips = <<TipFallback>> /\ resp.body.recipes = <<RecipeFallback>>)
              <=> ~AnyRuleFires
        /\ AnyRuleFires =>
              /\ TipFallback \notin Range(resp.body.tips)
              /\ RecipeFallback \notin Range(resp.body.recipes)
        /\ resp.body.mascot = Mascot
        /\ resp.body.tips # <<>>

\* only the household rule fired: tips but no recipes, and no fallback
C7_Witness ==
    /\ Suggested
    /\ FiresHousehold
    /\ ~(FiresBanana \/ FiresBread \/ FiresRice \/ FiresVegetable)
    /\ resp.body.recipes = <<>>
    /\ Len(resp.body.tips) = 2

(***************************************************************************)
(* Diversion aggregator                                                    *)
(***************************************************************************)
\* get_documents(collection, filter) of the store, with {"user_id": ...}
get_documents(coll, user_id) == SelectSeq(coll, LAMBDA d : d.user_id = user_id)

UnitsKg == {<<"k", "g">>, <<"k", "i", "l", "o">>, <<"k", "i", "l", "o", "g", "r", "a", "m">>, <<"k", "i", "l", "o", "g", "r", "a", "m", "s">>}
UnitsGram == {<<"g">>, <<"g", "r", "a", "m">>, <<"g", "r", "a", "m", "s">>}
UnitsPound == {<<"l", "b">>, <<"l", "b", "s">>, <<"p", "o", "u", "n", "d">>, <<"p", "o", "u", "n", "d", "s">>}

\* qty = it.get("quantity") or 0
QtyOrZero(q) == IF q.kind = "missing" THEN Float(0) ELSE q

\* unit = (it.get("unit") or "").lower()
UnitOf(it) == lower(OrEmpty(it.unit))

\* the if/elif chain on unit, on float(qty), in milligrams
Convert(unit, qty) ==
    IF unit \in UnitsKg THEN qty * 1000000
    ELSE IF unit \in UnitsGram THEN qty * 1000
    ELSE IF unit \in UnitsPound THEN qty * 453592
    ELSE qty * 200000

\* float(qty) raises ValueError on a non-numeric string
QtyRaises(it) == FloatRaises(QtyOrZero(it.quantity))

\* kg_diverted after the loop over items none of which raises
RECURSIVE KgDiverted(_)
KgDiverted(items) ==
    IF items = <<>> THEN 0
    ELSE KgDiverted(SubSeq(items, 1, Len(items) - 1))
         + Convert(UnitOf(items[Len(items)]), QtyOrZero(items[Len(items)].quantity).val)

\* people_helped: `it.get("available", True) is False`
PeopleHelped(items) == Cardinality({i \in 1..Len(items) : items[i].available = "False"})

\* user_stats on the fetched items: the loop stops at the first item whose
\* quantity raises, and the request fails
user_stats(items) ==
    IF \E i \in 1..Len(items) : QtyRaises(items[i])
    THEN [op |-> "user_stats", status |-> 500, body |-> <<>>]
    ELSE [op |-> "user_stats", status |-> 200,
          body |-> [items_shared |-> Len(items),
                    people_helped |-> PeopleHelped(items),
                    kilograms_diverted |-> round(KgDiverted(items), 10000)]]

Loc0 == <<Float(Lat1), Float(Lng1)>>
UserIds == {"u1", "u2"}

\* CreateItemRequest: quantity is any float or absent, unit any string or
\* absent
StatsItemRequests ==
    { ItemDoc("u1", Float(3), u, Loc0, "absent") :
         u \in { <<"k", "g">>, <<" ", "K", "G", " ">>, <<"K", "i", "l", "o", "g", "r", "a", "m", "s">>, <<"L", "B", "S">>,
                 <<"p", "c", "s">>, NoneStr } }
    \cup { ItemDoc("u1", Float(-2), <<"k", "g">>, Loc0, "absent"),
           ItemDoc("u1", Missing, <<"k", "g">>, Loc0, "absent") }

\* documents other writers of the database put into "item": claimed items,
\* and an item whose quantity is not a number
StatsStoredDocs ==
    { ItemDoc("u1", Float(2), <<"k", "g">>, Loc0, "True"),
      ItemDoc("u1", Float(500), <<"g">>, Loc0, "False"),
      ItemDoc("u2", Float(2), <<"P", "o", "u", "n", "d">>, Loc0, "False"),
      ItemDoc("u1", Float(1), <<"G", "r", "a", "m", "s">>, Loc0, "None"),
      ItemDoc("u1", BadStr, <<"k", "g">>, Loc0, "False") }

\* GET /api/users/{user_id}/stats
UserStats(user_id) ==
    /\ req' = [op |-> "user_stats", user_id |-> user_id]
    /\ resp' = user_stats(get_documents(itemDocs, user_id))
    /\ UNCHANGED <<itemDocs, userDocs, pc, existing>>

NextStats ==
    \/ \E data \in StatsItemRequests : create_item(data)
    \/ \E data \in StatsStoredDocs : StoreItem(data)
    \/ \E u \in UserIds : UserStats(u)

SpecStats == InitItems /\ [][NextStats]_vars

(***************************************************************************)
(* Diversion aggregator: properties                                        *)
(***************************************************************************)
Aggregated == resp.op = "user_stats"
UserItems == get_documents(itemDocs, req.user_id)

\* str.strip()
RECURSIVE Strip(_)
Strip(s) ==
    IF s = <<>> THEN s
    ELSE IF Head(s) = " " THEN Strip(Tail(s))
    ELSE IF s[Len(s)] = " " THEN Strip(SubSeq(s, 1, Len(s) - 1))
    ELSE s

\* the contribution of an item whose unit is lower-cased and trimmed
TrimmedKg(it) ==
    IF it.quantity.kind # "float" THEN 0
    ELSE Convert(Strip(lower(OrEmpty(it.unit))), it.quantity.val)

RECURSIVE SumTrimmedKg(_)
SumTrimmedKg(items) ==
    IF items = <<>> THEN 0
    ELSE TrimmedKg(Head(items)) + SumTrimmedKg(Tail(items))

\* the contribution of an item, 0 when its quantity is not a number
IsolatedKg(it) ==
    IF it.quantity.kind # "float" THEN 0
    ELSE Convert(UnitOf(it), it.quantity.val)

RECURSIVE SumIsolatedKg(_)
SumIsolatedKg(items) ==
    IF items = <<>> THEN 0
    ELSE IsolatedKg(Head(items)) + SumIsolatedKg(Tail(items))

\* C4: the unit is taken case-insensitively and trimmed of surrounding
\* whitespace (kg/kilo/kilogram(s) x 1, g/gram(s) / 1000, lb(s)/pound(s)
\* x 0.453592, other or absent x 0.2, missing quantity 0), and
\* kilograms_diverted is the sum over the user's items rounded to 2 decimals.
C4_UnitTrimmedCaseInsensitive ==
    (Aggregated /\ resp.status = 200) =>
        resp.body.kilograms_diverted = round(SumTrimmedKg(UserItems), 10000)

\* C5: user_stats never fails on a malformed quantity: such an item
\* contributes 0 kg and the three statistics are computed from the others.
C5_MalformedQuantityIsolated ==
    Aggregated =>
        /\ resp.status = 200
        /\ resp.body.items_shared = Len(UserItems)
        /\ resp.body.people_helped = PeopleHelped(UserItems)
        /\ resp.body.kilograms_diverted = round(SumIsolatedKg(UserItems), 10000)

\* C8: for every list of a user's items user_stats returns items_shared =
\* the number of items and people_helped = the number of items whose
\* `available` is explicitly false.
C8_CountsSharedAndHelped ==
    Aggregated =>
        /\ resp.status = 200
        /\ resp.body.items_shared
              = Cardinality({i \in 1..Len(itemDocs) : itemDocs[i].user_id = req.user_id})
        /\ resp.body.people_helped
              = Cardinality({i \in 1..Len(itemDocs) :
                                /\ itemDocs[i].user_id = req.user_id
                                /\ itemDocs[i].available = "False"})

\* C9: kilograms_diverted is >= 0 whatever quantities and units the user's
\* items hold.
C9_KilogramsNonNegative ==
    (Aggregated /\ resp.status = 200) => resp.body.kilograms_diverted >= 0

(***************************************************************************)
(* Registration                                                            *)
(***************************************************************************)
Requests == 1..MaxRequests
Emails == {"ana@example.com", "ben@example.com"}

\* db["user"].find_one({"email": email}), as a truth value
find_one(coll, email) == \E i \in 1..Len(coll) : coll[i].email = email

\* line 138: existing = db["user"].find_one({"email": req.email})
register_find(t) ==
    /\ pc[t] = "find"
    /\ existing' = [existing EXCEPT ![t] = find_one(userDocs, req[t].email)]
    /\ pc' = [pc EXCEPT ![t] = "check"]
    /\ UNCHANGED <<itemDocs, userDocs, req, resp>>

\* lines 139-140: raise HTTPException(status_code=400)
register_reject(t) ==
    /\ pc[t] = "check"
    /\ existing[t]
    /\ resp' = [resp EXCEPT ![t] = [op |-> "register_user", status |-> 400, body |-> <<>>]]
    /\ pc' = [pc EXCEPT ![t] = "done"]
    /\ UNCHANGED <<itemDocs, userDocs, req, existing>>

\* lines 141-142: user_id = create_document("user", data)
register_create(t) ==
    /\ pc[t] = "check"
    /\ ~existing[t]
    /\ userDocs' = create_document(userDocs, [oid |-> 0, email |-> req[t].email])
    /\ resp' = [resp EXCEPT ![t] = [op |-> "register_user", status |-> 200,
                                    body |-> [id |-> Len(userDocs'),
                                              email |-> req[t].email]]]
    /\ pc' = [pc EXCEPT ![t] = "done"]
    /\ UNCHANGED <<itemDocs, req, existing>>

InitRegister ==
    /\ itemDocs = <<>>
    /\ userDocs = <<>>
    /\ req \in [Requests -> {[op |-> "register_user", email |-> e] : e \in Emails}]
    /\ resp = [t \in Requests |-> NoResp]
    /\ pc = [t \in Requests |-> "find"]
    /\ existing = [t \in Requests |-> FALSE]

NextRegister ==
    \E t \in Requests : register_find(t) \/ register_reject(t) \/ register_create(t)

SpecRegister == InitRegister /\ [][NextRegister]_vars

(***************************************************************************)
(* Registration: properties                                                *)
(***************************************************************************)
\* C10: whatever the interleaving of register_user requests, "user" never
\* holds two documents with the same email.
C10_EmailUnique ==
    \A i, j \in 1..Len(userDocs) : userDocs[i].email = userDocs[j].email => i = j

====
